---- MODULE Spec2Model ----
(***************************************************************************)
(* Scooter rental service: scooter variants and their pricing              *)
(* (scooter_module.py), rental stations (station_module.py), the           *)
(* registry and the rental-change approval chain (system_module.py).       *)
(*                                                                         *)
(* Numbers.  Python floats are modelled as exact rationals with a fixed    *)
(* denominator: a duration is a whole number of 1/HoursUnit hours, a       *)
(* hourly rate is a whole number of currency units, and a cost is a whole  *)
(* number of 1/CostUnit currency units, so that rate * hours * 0.9 is      *)
(* rate * hours * 90 with no rounding.                                     *)
(*                                                                         *)
(* Objects.  Scooters and stations are Python objects with identity: they  *)
(* live in the heaps `scooters` and `stationObjs` and are referred to by   *)
(* their index.  Display-only data (model name, location, client name and  *)
(* phone, the value of a variant's extra attribute) is left out.           *)
(***************************************************************************)
EXTENDS Integers, Sequences, FiniteSets, TLC

VARIABLES
    scooters,     \* heap of Scooter objects
    stationObjs,  \* heap of RentalStation objects
    stations,     \* RentalSystem.stations: station id -> station object
    clients,      \* RentalSystem.clients: the registered client ids
    rentals,      \* RentalSystem.rentals: rental id -> rental record
    pc,           \* where process_rental_change stands
    request,      \* the request dict handed to the chain
    approved,     \* the value returned by the chain
    trail,        \* handlers entered by the running chain, in order
    pricingCalls, \* calculate_rental_cost calls made by the running chain
    result        \* outcome of the last completed call

vars == <<scooters, stationObjs, stations, clients, rentals,
          pc, request, approved, trail, pricingCalls, result>>

None == "None"

----------------------------------------------------------------------------
(* Units and input sets *)

HoursUnit == 2 * 9
CostUnit == HoursUnit * 100

H(n) == n * HoursUnit

\* 2.5 h, 3 h, 3.5 h, 4 h, 4 4/9 h, 5 h
AllHours == {45, 54, 63, 72, 80, 90}

Rates == {95, 250}

Tags == {"city", "off_road", "foldable", "City", "OFF_ROAD", "unicycle"}

KwargNames == {"max_speed", "tire_type", "weight"}

BatteryInputs == {-1, 0, 100, 101}

ScooterIds == {"SC1", "SC2"}

MaxCreated == 1

----------------------------------------------------------------------------
(* scooter_module.py *)

\* str.lower() on the type tags of the model
Lower(tag) ==
    CASE tag = "City" -> "city"
      [] tag = "OFF_ROAD" -> "off_road"
      [] OTHER -> tag

\* ScooterMeta._registry as filled when the three subclasses are defined
Registry ==
    [city |-> "CityScooter", off_road |-> "OffRoadScooter",
     foldable |-> "FoldableScooter"]

\* get_class without the lower-casing of the tag
get_class_exact(scooter_type) ==
    IF scooter_type \in DOMAIN Registry
    THEN Registry[scooter_type]
    ELSE None

\* ScooterMeta.get_class: cls._registry.get(scooter_type.lower())
get_class(scooter_type) ==
    IF Lower(scooter_type) \in DOMAIN Registry
    THEN Registry[Lower(scooter_type)]
    ELSE None

\* required_params.get(scooter_type.lower(), [])
required_params(scooter_type) ==
    CASE Lower(scooter_type) = "city" -> {"max_speed"}
      [] Lower(scooter_type) = "off_road" -> {"tire_type"}
      [] Lower(scooter_type) = "foldable" -> {"weight"}
      [] OTHER -> {}

\* the keyword parameter each subclass constructor accepts besides the
\* four positional ones
CtorKwargs(cls) ==
    CASE cls = "CityScooter" -> {"max_speed"}
      [] cls = "OffRoadScooter" -> {"tire_type"}
      [] cls = "FoldableScooter" -> {"weight"}

\* Scooter.__init__: the fields are stored as given
NewScooter(cls, scooter_id, battery_level, hourly_rate) ==
    [cls |-> cls, scooter_id |-> scooter_id, battery_level |-> battery_level,
     hourly_rate |-> hourly_rate, is_available |-> TRUE]

Outcome(op, exc, err, ret) == [op |-> op, exc |-> exc, err |-> err, ret |-> ret]

Ok(op, ret) == Outcome(op, None, "ok", ret)

Raise(op, exc, err) == Outcome(op, exc, err, 0)

\* calculate_rental_cost with the City discount from 3 hours on
calculate_rental_cost_from3(s, hours) ==
    LET base_cost == s.hourly_rate * hours IN
    CASE s.cls = "CityScooter" ->
            IF hours >= H(3) THEN base_cost * 90 ELSE base_cost * 100
      [] s.cls = "OffRoadScooter" -> base_cost * 115
      [] s.cls = "FoldableScooter" -> base_cost * 95

\* City/OffRoad/FoldableScooter.calculate_rental_cost: the cost, in
\* 1/CostUnit currency units, of `hours` (in 1/HoursUnit hours)
calculate_rental_cost(s, hours) ==
    LET base_cost == s.hourly_rate * hours IN
    CASE s.cls = "CityScooter" ->
            IF hours > H(3) THEN base_cost * 90 ELSE base_cost * 100
      [] s.cls = "OffRoadScooter" -> base_cost * 115
      [] s.cls = "FoldableScooter" -> base_cost * 95

sysVars == <<stationObjs, stations, clients, rentals,
             pc, request, approved, trail, pricingCalls>>

\* ScooterFactory.create_scooter(scooter_type, scooter_id, model,
\*                               battery_level, hourly_rate, **kwargs)
create_scooter(scooter_type, scooter_id, battery_level, hourly_rate, kwargs) ==
    /\ pc = "idle"
    /\ LET scooter_class == get_class(scooter_type) IN
       IF scooter_class = None
       THEN /\ result' = Raise("create_scooter", "ValueError", "UnknownVariant")
            /\ UNCHANGED scooters
       ELSE IF \E param \in required_params(scooter_type) : param \notin kwargs
       THEN /\ result' = Raise("create_scooter", "ValueError", "MissingParameter")
            /\ UNCHANGED scooters
       ELSE IF kwargs # CtorKwargs(scooter_class)
       THEN /\ result' = Raise("create_scooter", "TypeError", "UnexpectedKeyword")
            /\ UNCHANGED scooters
       ELSE /\ scooters' = Append(scooters,
                   NewScooter(scooter_class, scooter_id, battery_level, hourly_rate))
            /\ result' = Ok("create_scooter", Len(scooters) + 1)
    /\ UNCHANGED sysVars

\* the range check with 100 left out
ValidBattery_below100(value) == 0 <= value /\ value < 100

\* 0 <= value <= 100
ValidBattery(value) == 0 <= value /\ value <= 100

\* Scooter.battery_level setter
battery_level_set(o, value) ==
    /\ pc = "idle"
    /\ o \in 1..Len(scooters)
    /\ IF ~ValidBattery(value)
       THEN /\ result' = Raise("battery_level", "ValueError", "InvalidBatteryLevel")
            /\ UNCHANGED scooters
       ELSE /\ scooters' = [scooters EXCEPT ![o].battery_level = value]
            /\ result' = Ok("battery_level", o)
    /\ UNCHANGED sysVars

\* a caller's scooter.calculate_rental_cost(hours)
CalculateRentalCost(o, hours) ==
    /\ pc = "idle"
    /\ o \in 1..Len(scooters)
    /\ result' = Ok("calculate_rental_cost", calculate_rental_cost(scooters[o], hours))
    /\ UNCHANGED scooters
    /\ UNCHANGED sysVars

----------------------------------------------------------------------------
(* station_module.py *)

\* RentalStation.__init__
NewStation(station_id, capacity) ==
    [station_id |-> station_id, capacity |-> capacity, scooters |-> <<>>]

Min(S) == CHOOSE x \in S : \A y \in S : x <= y

\* for s in fleet: if s.scooter_id == scooter_id: ... break
\* the first scooter of the fleet with that id, 0 when there is none
FindScooter(fleet, scooter_id) ==
    LET hits == {i \in 1..Len(fleet) : scooters[fleet[i]].scooter_id = scooter_id}
    IN IF hits = {} THEN 0 ELSE fleet[Min(hits)]

\* list.remove(x): the list without the first occurrence of x
ListRemove(list, x) ==
    LET i == Min({k \in 1..Len(list) : list[k] = x})
    IN SubSeq(list, 1, i - 1) \o SubSeq(list, i + 1, Len(list))

chainVars == <<pc, request, approved, trail, pricingCalls>>

\* a caller's RentalStation(station_id, location, capacity)
RentalStation(station_id, capacity) ==
    /\ pc = "idle"
    /\ stationObjs' = Append(stationObjs, NewStation(station_id, capacity))
    /\ result' = Ok("RentalStation", Len(stationObjs) + 1)
    /\ UNCHANGED <<scooters, stations, clients, rentals, chainVars>>

\* RentalStation.add_scooter(scooter)
add_scooter(st, o) ==
    /\ pc = "idle"
    /\ st \in 1..Len(stationObjs)
    /\ o \in 1..Len(scooters)
    /\ LET self == stationObjs[st] IN
       IF Len(self.scooters) >= self.capacity
       THEN /\ result' = Raise("add_scooter", "ValueError", "StationFull")
            /\ UNCHANGED stationObjs
       ELSE IF \E i \in 1..Len(self.scooters) :
                  scooters[self.scooters[i]].scooter_id = scooters[o].scooter_id
       THEN /\ result' = Raise("add_scooter", "ValueError", "AlreadyAtStation")
            /\ UNCHANGED stationObjs
       ELSE /\ stationObjs' = [stationObjs EXCEPT ![st].scooters = Append(@, o)]
            /\ result' = Ok("add_scooter", o)
    /\ UNCHANGED <<scooters, stations, clients, rentals, chainVars>>

\* RentalStation.remove_scooter(scooter_id)
remove_scooter(st, scooter_id) ==
    /\ pc = "idle"
    /\ st \in 1..Len(stationObjs)
    /\ LET self == stationObjs[st]
           scooter == FindScooter(self.scooters, scooter_id) IN
       IF scooter # 0
       THEN /\ stationObjs' =
                  [stationObjs EXCEPT ![st].scooters = ListRemove(@, scooter)]
            /\ result' = Ok("remove_scooter", scooter)
       ELSE /\ result' = Raise("remove_scooter", "ValueError", "ScooterNotFound")
            /\ UNCHANGED stationObjs
    /\ UNCHANGED <<scooters, stations, clients, rentals, chainVars>>

\* RentalStation.rent_scooter(scooter_id, hours)
rent_scooter(st, scooter_id, hours) ==
    /\ pc = "idle"
    /\ st \in 1..Len(stationObjs)
    /\ LET scooter == FindScooter(stationObjs[st].scooters, scooter_id) IN
       IF scooter = 0
       THEN /\ result' = Raise("rent_scooter", "ValueError", "ScooterNotFound")
            /\ UNCHANGED scooters
       ELSE IF ~scooters[scooter].is_available
       THEN /\ result' = Raise("rent_scooter", "ValueError", "ScooterUnavailable")
            /\ UNCHANGED scooters
       ELSE /\ scooters' = [scooters EXCEPT ![scooter].is_available = FALSE]
            /\ result' = Ok("rent_scooter",
                            calculate_rental_cost(scooters[scooter], hours))
    /\ UNCHANGED <<stationObjs, stations, clients, rentals, chainVars>>

----------------------------------------------------------------------------
(* system_module.py: the approval chain *)

\* a chain whose Manager was never given a successor
next_handler_no_admin(handler) ==
    CASE handler = "OperatorHandler" -> "ManagerHandler"
      [] handler = "ManagerHandler" -> None
      [] handler = "AdminHandler" -> None

\* RentalSystem._setup_handlers:
\* OperatorHandler().set_next(ManagerHandler()).set_next(AdminHandler())
next_handler(handler) ==
    CASE handler = "OperatorHandler" -> "ManagerHandler"
      [] handler = "ManagerHandler" -> "AdminHandler"
      [] handler = "AdminHandler" -> None

\* self._change_handler
change_handler == "OperatorHandler"

OperatorMaxHours == 4
ManagerMaxCost == 1000

\* an Operator that approves only below 3 hours
OperatorApproves_below3(hours) == hours < H(3)

\* request['hours'] < 4
OperatorApproves(hours) == hours < H(OperatorMaxHours)

\* a Manager that approves only below 1000
ManagerApproves_strict(cost) == cost < ManagerMaxCost * CostUnit

\* cost <= 1000
ManagerApproves(cost) == cost <= ManagerMaxCost * CostUnit

NoRequest == [rental_id |-> None, hours |-> 0, scooter |-> 0, client_id |-> None]

\* return True / return False out of the chain
Return(value) ==
    /\ approved' = value
    /\ pc' = "apply"

\* if self._next_handler: return self._next_handler.handle(request)
\* return False
Delegate(handler) ==
    IF next_handler(handler) # None
    THEN /\ pc' = next_handler(handler)
         /\ UNCHANGED approved
    ELSE Return(FALSE)

regVars == <<scooters, stationObjs, stations, clients, rentals, result>>

\* OperatorHandler.handle(request)
OperatorHandle ==
    /\ pc = "OperatorHandler"
    /\ trail' = Append(trail, "OperatorHandler")
    /\ IF OperatorApproves(request.hours)
       THEN Return(TRUE)
       ELSE Delegate("OperatorHandler")
    /\ UNCHANGED <<request, pricingCalls, regVars>>

\* ManagerHandler.handle(request)
ManagerHandle ==
    /\ pc = "ManagerHandler"
    /\ trail' = Append(trail, "ManagerHandler")
    /\ pricingCalls' = pricingCalls + 1
    /\ LET cost == calculate_rental_cost(scooters[request.scooter], request.hours) IN
       IF ManagerApproves(cost)
       THEN Return(TRUE)
       ELSE Delegate("ManagerHandler")
    /\ UNCHANGED <<request, regVars>>

\* AdminHandler.handle(request)
AdminHandle ==
    /\ pc = "AdminHandler"
    /\ trail' = Append(trail, "AdminHandler")
    /\ Return(TRUE)
    /\ UNCHANGED <<request, pricingCalls, regVars>>

----------------------------------------------------------------------------
(* system_module.py: RentalSystem *)

\* RentalSystem.add_station(station)
add_station(st) ==
    /\ pc = "idle"
    /\ st \in 1..Len(stationObjs)
    /\ IF stationObjs[st].station_id \in DOMAIN stations
       THEN /\ result' = Raise("add_station", "ValueError", "DuplicateStation")
            /\ UNCHANGED stations
       ELSE /\ stations' = (stationObjs[st].station_id :> st) @@ stations
            /\ result' = Ok("add_station", st)
    /\ UNCHANGED <<scooters, stationObjs, clients, rentals, chainVars>>

\* RentalSystem.register_client(client_id, name, phone)
register_client(client_id) ==
    /\ pc = "idle"
    /\ IF client_id \in clients
       THEN /\ result' = Raise("register_client", "ValueError", "DuplicateClient")
            /\ UNCHANGED clients
       ELSE /\ clients' = clients \cup {client_id}
            /\ result' = Ok("register_client", 0)
    /\ UNCHANGED <<scooters, stationObjs, stations, rentals, chainVars>>

\* RentalSystem.add_rental(rental_id, client_id, station_id, scooter_id, hours)
add_rental(rental_id, client_id, station_id, scooter_id, hours) ==
    /\ pc = "idle"
    /\ IF station_id \notin DOMAIN stations
       THEN /\ result' = Raise("add_rental", "ValueError", "StationNotFound")
            /\ UNCHANGED <<scooters, rentals>>
       ELSE LET station == stationObjs[stations[station_id]]
                scooter == FindScooter(station.scooters, scooter_id) IN
            IF scooter = 0
            THEN /\ result' = Raise("add_rental", "ValueError", "ScooterNotFound")
                 /\ UNCHANGED <<scooters, rentals>>
            ELSE IF ~scooters[scooter].is_available
            THEN /\ result' = Raise("add_rental", "ValueError", "ScooterUnavailable")
                 /\ UNCHANGED <<scooters, rentals>>
            ELSE \* cost = station.rent_scooter(scooter_id, hours)
                 LET cost == calculate_rental_cost(scooters[scooter], hours) IN
                 /\ scooters' = [scooters EXCEPT ![scooter].is_available = FALSE]
                 /\ rentals' = (rental_id :>
                        [client_id |-> client_id, station_id |-> station_id,
                         scooter_id |-> scooter_id, hours |-> hours,
                         cost |-> cost]) @@ rentals
                 /\ result' = Ok("add_rental", 0)
    /\ UNCHANGED <<stationObjs, stations, clients, chainVars>>

\* RentalSystem.process_rental_change(rental_id, new_hours), up to the
\* call of self._change_handler.handle(request)
process_rental_change(rental_id, new_hours) ==
    /\ pc = "idle"
    /\ IF rental_id \notin DOMAIN rentals
       THEN /\ result' = Raise("process_rental_change", "ValueError", "RentalNotFound")
            /\ UNCHANGED chainVars
       ELSE LET rental == rentals[rental_id] IN
            IF rental.station_id \notin DOMAIN stations
            THEN /\ result' = Raise("process_rental_change", "ValueError",
                                    "StationNotFound")
                 /\ UNCHANGED chainVars
            ELSE LET station == stationObjs[stations[rental.station_id]]
                     scooter == FindScooter(station.scooters, rental.scooter_id) IN
                 IF scooter = 0
                 THEN /\ result' = Raise("process_rental_change", "ValueError",
                                         "ScooterNotFound")
                      /\ UNCHANGED chainVars
                 ELSE /\ request' = [rental_id |-> rental_id, hours |-> new_hours,
                                     scooter |-> scooter,
                                     client_id |-> rental.client_id]
                      /\ pc' = change_handler
                      /\ trail' = <<>>
                      /\ pricingCalls' = 0
                      /\ UNCHANGED <<approved, result>>
    /\ UNCHANGED <<scooters, stationObjs, stations, clients, rentals>>

\* a rewrite that leaves the old cost in the record
RewriteRecord_hours_only(rental, new_hours, cost) ==
    [rental EXCEPT !.hours = new_hours]

\* rental['hours'] = new_hours; rental['cost'] = cost
RewriteRecord(rental, new_hours, cost) ==
    [rental EXCEPT !.hours = new_hours, !.cost = cost]

\* RentalSystem.process_rental_change from the return of the chain:
\* if approved: rewrite the record; return approved
ApplyDecision ==
    /\ pc = "apply"
    /\ IF approved
       THEN rentals' = [rentals EXCEPT ![request.rental_id] =
                RewriteRecord(@, request.hours,
                    calculate_rental_cost(scooters[request.scooter], request.hours))]
       ELSE UNCHANGED rentals
    /\ result' = Ok("process_rental_change", IF approved THEN 1 ELSE 0)
    /\ pc' = "idle"
    /\ request' = NoRequest
    /\ approved' = FALSE
    /\ trail' = <<>>
    /\ pricingCalls' = 0
    /\ UNCHANGED <<scooters, stationObjs, stations, clients>>

----------------------------------------------------------------------------
(* Initial states *)

EmptyDict == [x \in {} |-> 0]

\* RentalSystem.__init__, no scooter and no station constructed yet
Init ==
    /\ scooters = <<>>
    /\ stationObjs = <<>>
    /\ stations = EmptyDict
    /\ clients = {}
    /\ rentals = EmptyDict
    /\ pc = "idle"
    /\ request = NoRequest
    /\ approved = FALSE
    /\ trail = <<>>
    /\ pricingCalls = 0
    /\ result = Ok("init", 0)

Classes == {"CityScooter", "OffRoadScooter", "FoldableScooter"}

\* A fresh RentalSystem beside two stations holding one scooter each:
\* scooter 1 (SC1, k1) at ST1, scooter 2 (SC2, k2) at ST2
World(k1, k2) ==
    /\ scooters = <<NewScooter(k1[1], "SC1", 100, k1[2]),
                    NewScooter(k2[1], "SC2", 100, k2[2])>>
    /\ stationObjs = <<[NewStation("ST1", 2) EXCEPT !.scooters = <<1>>],
                       [NewStation("ST2", 1) EXCEPT !.scooters = <<2>>]>>
    /\ stations = EmptyDict
    /\ clients = {}
    /\ rentals = EmptyDict
    /\ pc = "idle"
    /\ request = NoRequest
    /\ approved = FALSE
    /\ trail = <<>>
    /\ pricingCalls = 0
    /\ result = Ok("init", 0)

----------------------------------------------------------------------------
(* Specifications *)

MaxScooters == 2
MaxStations == 2

StationIds == {"ST1", "ST2"}
RentalIds == {"RT1", "RT2"}
ClientIds == {"CL1"}

\* 3 h, 4 h, 4 4/9 h, 5 h
ChangeHours == {54, 72, 80, 90}
\* 3 h, 5 h
RentHours == {54, 90}

\* scooter_module.py on its own
NextScooter ==
    \/ \E t \in Tags, b \in BatteryInputs, r \in Rates, kw \in SUBSET KwargNames :
          /\ Len(scooters) < MaxCreated
          /\ create_scooter(t, "SC1", b, r, kw)
    \/ \E o \in 1..Len(scooters), v \in BatteryInputs : battery_level_set(o, v)
    \/ \E o \in 1..Len(scooters), h \in AllHours : CalculateRentalCost(o, h)

SpecScooter == Init /\ [][NextScooter]_vars

\* station_module.py: scooters from the factory put on and taken off stations
NextStation ==
    \/ \E id \in ScooterIds :
          /\ Len(scooters) < MaxScooters
          /\ create_scooter("city", id, 100, 250, {"max_speed"})
    \/ \E id \in StationIds, cap \in {1, 2} :
          /\ Len(stationObjs) < MaxStations
          /\ RentalStation(id, cap)
    \/ \E st \in 1..Len(stationObjs), o \in 1..Len(scooters) : add_scooter(st, o)
    \/ \E st \in 1..Len(stationObjs), id \in ScooterIds : remove_scooter(st, id)
    \/ \E st \in 1..Len(stationObjs), id \in ScooterIds, h \in RentHours :
          rent_scooter(st, id, h)

SpecStation == Init /\ [][NextStation]_vars

\* the registry and the approval chain
RegistryCalls(rids, renthours) ==
    \/ \E st \in 1..Len(stationObjs) : add_station(st)
    \/ \E c \in ClientIds : register_client(c)
    \/ \E r \in rids, c \in ClientIds, st \in StationIds, s \in ScooterIds,
          h \in renthours : add_rental(r, c, st, s, h)
    \/ \E r \in rids, h \in ChangeHours : process_rental_change(r, h)

ChainSteps ==
    \/ OperatorHandle
    \/ ManagerHandle
    \/ AdminHandle
    \/ ApplyDecision

InitRegistry == World(<<"CityScooter", 250>>, <<"OffRoadScooter", 95>>)

Next ==
    \/ RegistryCalls({"RT1"}, RentHours)
    \/ ChainSteps
    \/ \E st \in 1..Len(stationObjs), id \in ScooterIds : remove_scooter(st, id)

Spec == InitRegistry /\ [][Next]_vars

InitRental ==
    \E k1 \in Classes \X Rates,
       k2 \in {<<"FoldableScooter", 95>>, <<"OffRoadScooter", 250>>} : World(k1, k2)

NextRental ==
    \/ RegistryCalls(RentalIds, RentHours)
    \/ ChainSteps

SpecRental == InitRental /\ [][NextRental]_vars

----------------------------------------------------------------------------
(* Properties *)

\* The pricing table of the variants, written out from its statement:
\* City rate*hours, times 0.9 only above 3 hours; OffRoad rate*hours*1.15;
\* Foldable rate*hours*0.95 (in 1/CostUnit currency units)
VariantFormula(cls, rate, hours) ==
    IF cls = "CityScooter"
    THEN (IF hours > 3 * HoursUnit THEN rate * hours * 90 ELSE rate * hours * 100)
    ELSE IF cls = "OffRoadScooter" THEN rate * hours * 115
    ELSE rate * hours * 95

Range(seq) == {seq[i] : i \in 1..Len(seq)}

\* the handler that returned the decision
Approver == trail[Len(trail)]

FourHours == 4 * HoursUnit
Thousand == 1000 * CostUnit

\* C1: the chain Operator -> Manager -> Admin never denies: whenever
\* handle() has returned, its result is true, and every
\* process_rental_change that completes without an error returns true.
ChainNeverDenies ==
    /\ pc = "apply" => approved
    /\ (result.op = "process_rental_change" /\ result.err = "ok") => result.ret = 1

\* C1 witness: a request escalated through all three levels has been
\* decided, and approved, by Admin.
ChainNeverDeniesWitness ==
    /\ pc = "apply"
    /\ approved
    /\ trail = <<"OperatorHandler", "ManagerHandler", "AdminHandler">>

\* C2: the approving authority is Operator when hours < 4, Manager when
\* hours >= 4 and the scooter's cost for those hours is <= 1000, Admin when
\* hours >= 4 and that cost is > 1000; a City scooter with rate 95 and
\* 5 hours is approved by Manager.
ApprovingAuthority ==
    pc = "apply" =>
        LET s == scooters[request.scooter]
            cost == VariantFormula(s.cls, s.hourly_rate, request.hours) IN
        /\ approved
        /\ Approver = (IF request.hours < FourHours THEN "OperatorHandler"
                       ELSE IF cost <= Thousand THEN "ManagerHandler"
                       ELSE "AdminHandler")
        /\ (s.cls = "CityScooter" /\ s.hourly_rate = 95
              /\ request.hours = 5 * HoursUnit) => Approver = "ManagerHandler"

\* C2 witness: a request whose cost is exactly 1000 has been approved by
\* Manager.
ApprovingAuthorityWitness ==
    /\ pc = "apply"
    /\ request.hours >= FourHours
    /\ LET s == scooters[request.scooter] IN
       VariantFormula(s.cls, s.hourly_rate, request.hours) = Thousand
    /\ Approver = "ManagerHandler"

\* C3: while a request with hours < 4 is being handled, and when its
\* decision is returned, the Manager level has not been entered and is not
\* about to be, and the chain has made no cost computation.
OperatorShortCircuit ==
    (pc # "idle" /\ request.hours < FourHours) =>
        /\ pc # "ManagerHandler"
        /\ "ManagerHandler" \notin Range(trail)
        /\ pricingCalls = 0

\* C3 witness: a request of 3 hours has been approved by Operator alone.
OperatorShortCircuitWitness ==
    /\ pc = "apply"
    /\ request.hours < FourHours
    /\ approved
    /\ trail = <<"OperatorHandler">>

\* the scooter a rental record refers to: the one found under the record's
\* scooter id in the fleet of the record's station (0 when there is none)
ScooterOf(r) ==
    IF r.station_id \in DOMAIN stations
    THEN FindScooter(stationObjs[stations[r.station_id]].scooters, r.scooter_id)
    ELSE 0

RentalCostsMatch ==
    \A rid \in DOMAIN rentals :
        LET r == rentals[rid]
            s == ScooterOf(r) IN
        /\ s # 0
        /\ r.cost = VariantFormula(scooters[s].cls, scooters[s].hourly_rate, r.hours)

ApprovedChangeRewrites ==
    (pc = "apply" /\ pc' = "idle" /\ approved) =>
        LET s == scooters[request.scooter] IN
        /\ DOMAIN rentals' = DOMAIN rentals
        /\ rentals'[request.rental_id].hours = request.hours
        /\ rentals'[request.rental_id].cost =
               VariantFormula(s.cls, s.hourly_rate, request.hours)
        /\ \A rid \in DOMAIN rentals :
               rid # request.rental_id => rentals'[rid] = rentals[rid]

FailedCallKeepsRecords ==
    (pc = "idle" /\ pc' = "idle" /\ result'.err # "ok") => rentals' = rentals

\* C10: under add_rental and process_rental_change every rental record's
\* cost is the cost its scooter's variant formula gives for the record's
\* hours; an approved change sets the record's hours and cost to those of
\* the new hours and changes no other record; a failed call changes no
\* record.
RentalRecordsConsistent ==
    /\ []RentalCostsMatch
    /\ [][ApprovedChangeRewrites /\ FailedCallKeepsRecords]_vars

\* C10 witness: with two rentals on record, a change of one of them to
\* other hours has been approved and applied.
RentalRecordsConsistentWitness ==
    /\ result.op = "process_rental_change"
    /\ result.ret = 1
    /\ pc = "idle"
    /\ Cardinality(DOMAIN rentals) = 2
    /\ \E rid \in DOMAIN rentals : rentals[rid].hours \notin RentHours

\* C4: for every variant, rate and hours the cost returned by
\* calculate_rental_cost is the variant's formula (City discounted only
\* above 3 hours), and the call leaves every scooter as it was.
CostFollowsFormula ==
    [][\A o \in 1..Len(scooters), h \in AllHours :
          CalculateRentalCost(o, h) =>
              /\ result'.ret =
                     VariantFormula(scooters[o].cls, scooters[o].hourly_rate, h)
              /\ scooters' = scooters]_vars

\* C4 witness: a City scooter has been priced for exactly 3 hours, at
\* rate * 3 with no discount.
CostFollowsFormulaWitness ==
    /\ result.op = "calculate_rental_cost"
    /\ \E o \in 1..Len(scooters) :
          /\ scooters[o].cls = "CityScooter"
          /\ result.ret = scooters[o].hourly_rate * 3 * CostUnit

\* C5: the battery level of every scooter is within [0,100] in every
\* reachable state.
BatteryInRange ==
    \A o \in 1..Len(scooters) :
        0 <= scooters[o].battery_level /\ scooters[o].battery_level <= 100

\* C6: a battery write outside [0,100] fails with the invalid-battery-level
\* error and leaves the scooter's level as it was; a write of a value in
\* [0,100], 0 and 100 included, succeeds and becomes the level.
BatteryWrite ==
    [][\A o \in 1..Len(scooters), v \in BatteryInputs :
          battery_level_set(o, v) =>
              IF 0 <= v /\ v <= 100
              THEN /\ result'.err = "ok"
                   /\ scooters'[o].battery_level = v
              ELSE /\ result'.err = "InvalidBatteryLevel"
                   /\ scooters' = scooters]_vars

\* C6 witness: a write has just been rejected on a scooter whose level is
\* in range.
BatteryWriteWitness ==
    /\ result.op = "battery_level"
    /\ result.err = "InvalidBatteryLevel"
    /\ \E o \in 1..Len(scooters) : scooters[o].battery_level = 100

RecognizedTags == {"city", "off_road", "foldable"}

RequiredAttribute(tag) ==
    IF tag = "city" THEN "max_speed"
    ELSE IF tag = "off_road" THEN "tire_type"
    ELSE "weight"

VariantClass(tag) ==
    IF tag = "city" THEN "CityScooter"
    ELSE IF tag = "off_road" THEN "OffRoadScooter"
    ELSE "FoldableScooter"

Created(cls) ==
    /\ result'.err = "ok"
    /\ Len(scooters') = Len(scooters) + 1
    /\ scooters'[Len(scooters')].cls = cls

NotCreated(err) ==
    /\ result'.err = err
    /\ scooters' = scooters

\* The step is a factory call with tag t and extra parameters kw.  The other
\* arguments are those of the scooter the step created; a call that creates
\* nothing is the same step whatever they are.
FactoryCall(t, kw) ==
    LET s == IF Len(scooters') = Len(scooters) + 1
             THEN scooters'[Len(scooters')]
             ELSE NewScooter("CityScooter", "SC1", 100, 95) IN
    create_scooter(t, s.scooter_id, s.battery_level, s.hourly_rate, kw)

\* C7 as stated: the factory fails with UnknownVariant for every tag other
\* than "city", "off_road", "foldable", with MissingParameter when the tag
\* is one of these and its required attribute is absent, creating nothing
\* in both cases, and returns a scooter of the variant when the tag is one
\* of these and the required attribute is present.
FactoryAsStated ==
    [][\A t \in Tags, kw \in SUBSET KwargNames :
          FactoryCall(t, kw) =>
              /\ t \notin RecognizedTags => NotCreated("UnknownVariant")
              /\ (t \in RecognizedTags /\ RequiredAttribute(t) \notin kw) =>
                     NotCreated("MissingParameter")
              /\ (t \in RecognizedTags /\ RequiredAttribute(t) \in kw) =>
                     Created(VariantClass(t))]_vars

\* C7 amended: the tag is compared after lower-casing, and a scooter is
\* returned when the required attribute is the only extra parameter.
FactoryLowerCased ==
    [][\A t \in Tags, kw \in SUBSET KwargNames :
          FactoryCall(t, kw) =>
              /\ Lower(t) \notin RecognizedTags => NotCreated("UnknownVariant")
              /\ (Lower(t) \in RecognizedTags
                    /\ RequiredAttribute(Lower(t)) \notin kw) =>
                     NotCreated("MissingParameter")
              /\ (Lower(t) \in RecognizedTags
                    /\ kw = {RequiredAttribute(Lower(t))}) =>
                     Created(VariantClass(Lower(t)))]_vars

\* C7 witness: a factory call has just failed for a missing attribute and
\* created nothing.
FactoryLowerCasedWitness ==
    /\ result.op = "create_scooter"
    /\ result.err = "MissingParameter"
    /\ scooters = <<>>

Failed == result'.err # "ok" /\ pc' = "idle"

RegistryUnchanged == UNCHANGED <<stations, clients, rentals, scooters>>

InFleet(station_id, scooter_id) ==
    /\ station_id \in DOMAIN stations
    /\ FindScooter(stationObjs[stations[station_id]].scooters, scooter_id) # 0

\* C8: add_station, register_client and add_rental fail and change nothing
\* when the new id already exists; add_rental and process_rental_change
\* fail and change nothing when a client, station, scooter or rental they
\* refer to does not exist.
RegistryValidatesIds ==
    [][/\ \A st \in 1..Len(stationObjs) :
             (add_station(st) /\ stationObjs[st].station_id \in DOMAIN stations)
                 => (Failed /\ RegistryUnchanged)
       /\ \A c \in ClientIds :
             (register_client(c) /\ c \in clients) => (Failed /\ RegistryUnchanged)
       /\ \A r \in RentalIds, c \in ClientIds, st \in StationIds,
             s \in ScooterIds, h \in RentHours :
             (add_rental(r, c, st, s, h)
                /\ (r \in DOMAIN rentals \/ c \notin clients \/ ~InFleet(st, s)))
                 => (Failed /\ RegistryUnchanged)
       /\ \A r \in RentalIds, h \in ChangeHours :
             (process_rental_change(r, h)
                /\ (r \notin DOMAIN rentals
                      \/ ~InFleet(rentals[r].station_id, rentals[r].scooter_id)))
                 => (Failed /\ RegistryUnchanged)]_vars

\* C9: no scooter is in the fleets of two stations, nor twice in one fleet.
OneFleetPerScooter ==
    \A s1, s2 \in 1..Len(stationObjs) :
        \A i \in 1..Len(stationObjs[s1].scooters),
           j \in 1..Len(stationObjs[s2].scooters) :
            stationObjs[s1].scooters[i] = stationObjs[s2].scooters[j]
                => (s1 = s2 /\ i = j)

====
